---- MODULE Spec2Model ----
(***************************************************************************)
(* Navmesh construction of foxtrot: src/spawning/post_spawn_modification.rs *)
(* (get_mesh, read_navmesh, PolygonExtension, get_edges).                   *)
(*                                                                          *)
(* One navmesh source node is processed by read_navmesh.  The scene (the    *)
(* children of the source node and the mesh asset their handles point to)   *)
(* is the input; the stages of the loop body are the actions.  The vertex   *)
(* positions are taken in world space, that is after transform_point of     *)
(* line 86, with integer coordinates.                                       *)
(*                                                                          *)
(* Indices are 0-based as in the source; TLA+ sequences are 1-based, so the *)
(* element of index i is seq[i + 1].                                        *)
(***************************************************************************)
EXTENDS Integers, Sequences, FiniteSets

VARIABLES
    children,            \* the children of the source node: one kind per child entity
    attributes,          \* what the mesh asset holds: "complete", "no_positions", "no_indices"
    positions,           \* ATTRIBUTE_POSITION of the mesh in world space: a sequence of <<x, y, z>>
    indices,             \* the (flat) index buffer of the mesh
    pc,                  \* position in the body of read_navmesh
    failure,             \* the stage at which the system panicked, or "none"
    child,               \* the entity returned by get_mesh (-1 before that)
    triangles,           \* line 77
    vertices,            \* line 83: sequence of [coords, polygons]
    polygons,            \* line 103: sequence of [vertices, is_one_way]
    unordered_vertices,  \* line 119
    vertex_index,        \* the loop variable of line 120
    sorted_polygons,     \* per resolved vertex: vertex.polygons after sort_by_key
    despawned,           \* entities for which despawn_recursive was issued
    inserted,            \* whether the baked navmesh was inserted on the source node
    events               \* the stages executed so far, in order

vars == <<children, attributes, positions, indices, pc, failure, child, triangles,
          vertices, polygons, unordered_vertices, vertex_index, sorted_polygons,
          despawned, inserted, events>>

----------------------------------------------------------------------------
(* Bounds of the general input space *)

MaxVertices == 3
MaxIndices == 6
MaxChildren == 2
MaxPlanarVertices == 5
MaxPlanarTriangles == 3

(* The obstacle marker pushed at line 160 *)
Obstacle == -1

(* Option::None of the edge lookups *)
None == <<>>

----------------------------------------------------------------------------
(* Small helpers *)

Min(S) == CHOOSE x \in S : \A y \in S : x <= y

Range(s) == {s[i] : i \in 1..Len(s)}

Count(s, x) == Cardinality({i \in 1..Len(s) : s[i] = x})

SeqsUpTo(S, n) == UNION {[1..k -> S] : k \in 0..n}

----------------------------------------------------------------------------
(* Pure functions of the source *)

\* Vec3::xz (line 87): the horizontal-plane projection
xz(p) == <<p[1], p[3]>>

\* itertools tuples() at lines 77-81: groups of 3, an incomplete tail is dropped
tuples(buf) ==
    [k \in 1..(Len(buf) \div 3) |-> <<buf[3 * k - 2], buf[3 * k - 1], buf[3 * k]>>]

\* lines 90-99: the polygons (0-based, ascending) whose triangle contains the vertex
neighbor_indices(tris, v) ==
    LET Holds(k) == v \in Range(tris[k + 1])
        all == [k \in 1..Len(tris) |-> k - 1]
    IN  SelectSeq(all, Holds)

\* get_edges (lines 198-205): consecutive pairs of the vertex ring
get_edges(polygon) ==
    LET vs == polygon.vertices
    IN  [i \in 1..Len(vs) |-> <<vs[i], vs[(i % Len(vs)) + 1]>>]

\* Iterator::find: the first element satisfying the test, or None
FindEdge(es, hits) == IF hits = {} THEN None ELSE es[Min(hits)]

\* lines 183-190
get_counterclockwise_edge_containing_vertex(polygon, v) ==
    LET es == get_edges(polygon)
    IN  FindEdge(es, {i \in 1..Len(es) : es[i][2] = v})

\* the reversed convention: looks for the vertex in the second place of the edge
cw_edge_by_second(polygon, v) ==
    LET es == get_edges(polygon)
    IN  FindEdge(es, {i \in 1..Len(es) : es[i][2] = v})

\* lines 191-195
get_clockwise_edge_containing_vertex(polygon, v) ==
    LET es == get_edges(polygon)
    IN  FindEdge(es, {i \in 1..Len(es) : es[i][1] = v})

\* lines 106-115, evaluated lazily as the iterator chain does: the vertices of the
\* polygon are visited in order, take(3) stops the chain as soon as 3 distinct
\* polygons were seen, and indexing `vertices` out of range panics when reached.
RECURSIVE unique_take3(_, _, _)
unique_take3(vs, seen, verts) ==
    IF Cardinality(seen) >= 3 THEN [panic |-> FALSE, count |-> 3]
    ELSE IF vs = <<>> THEN [panic |-> FALSE, count |-> Cardinality(seen)]
    ELSE IF Head(vs) >= Len(verts) THEN [panic |-> TRUE, count |-> 0]
    ELSE unique_take3(Tail(vs), seen \cup Range(verts[Head(vs) + 1].polygons), verts)

is_one_way(tri, verts) == unique_take3(tri, {}, verts).count < 3

\* f32::atan2 on integer vectors, as the order it induces: the half-open turn
\* (-pi, pi] is cut into y < 0, the ray y = 0 /\ x >= 0 (angle 0, the zero vector
\* included), y > 0 and the ray y = 0 /\ x < 0 (angle pi).
Sector(u) ==
    IF u[2] < 0 THEN 0
    ELSE IF u[2] > 0 THEN 2
    ELSE IF u[1] >= 0 THEN 1 ELSE 3

Cross(u, w) == u[1] * w[2] - u[2] * w[1]

\* atan2(u.y, u.x) < atan2(w.y, w.x)
atan2_less(u, w) ==
    \/ Sector(u) < Sector(w)
    \/ Sector(u) = Sector(w) /\ Sector(u) \in {0, 2} /\ Cross(u, w) > 0

\* line 130: the vertex whose coordinates the sort key is taken from
\* (`counterclockwise_edge.1`)
other_vertex_index(edge) == edge[2]

\* lines 124-132: the vector whose angle is the sort key of polygon `index`
sort_key(index, v, vertex, polys, uverts) ==
    LET polygon == polys[index + 1]
        counterclockwise_edge == get_counterclockwise_edge_containing_vertex(polygon, v)
        other_vertex == uverts[other_vertex_index(counterclockwise_edge) + 1]
    IN  <<other_vertex.coords[1] - vertex.coords[1],
          other_vertex.coords[2] - vertex.coords[2]>>

\* slice::sort_by_key (line 122): a stable sort; the element at place i moves to
\* the place counted by the strictly smaller keys and the equal keys before it
sort_by_key(ps, v, vertex, polys, uverts) ==
    LET key(i) == sort_key(ps[i], v, vertex, polys, uverts)
        rank(i) == Cardinality({j \in 1..Len(ps) : atan2_less(key(j), key(i))})
                   + Cardinality({j \in 1..(i - 1) : ~atan2_less(key(i), key(j))
                                                     /\ ~atan2_less(key(j), key(i))})
                   + 1
    IN  [r \in 1..Len(ps) |-> ps[CHOOSE i \in 1..Len(ps) : rank(i) = r]]

\* lines 156-157: the edges don't align
edges_never_misaligned(last_counterclockwise_edge, next_clockwise_edge) ==
    /\ last_counterclockwise_edge[1] /= next_clockwise_edge[2]
    /\ last_counterclockwise_edge[2] /= next_clockwise_edge[1]

edges_misaligned(last_counterclockwise_edge, next_clockwise_edge) ==
    \/ last_counterclockwise_edge[1] /= next_clockwise_edge[2]
    \/ last_counterclockwise_edge[2] /= next_clockwise_edge[1]

\* lines 135-140 without the chained first element
ring_not_closed(ps) == Tail(ps)

\* lines 135-140: the iterator of the walk, the first element chained at the end
ring_iterator(ps) == Tail(ps) \o <<ps[1]>>

\* line 165 left out
keep_first(s) == s

\* line 165: Vec::remove(0)
remove_first(s) == Tail(s)

\* lines 141-163: the body of the walk, for the remaining elements `rest`
RECURSIVE walk(_, _, _, _)
walk(acc, rest, v, polys) ==
    IF rest = <<>> THEN acc
    ELSE
        LET polygon_index == Head(rest)
            last_index == acc[Len(acc)]
        IN  IF last_index = Obstacle
            THEN walk(Append(acc, polygon_index), Tail(rest), v, polys)
            ELSE
                LET last_polygon == polys[last_index + 1]
                    last_counterclockwise_edge ==
                        get_counterclockwise_edge_containing_vertex(last_polygon, v)
                    next_polygon == polys[polygon_index + 1]
                    next_clockwise_edge ==
                        get_clockwise_edge_containing_vertex(next_polygon, v)
                IN  IF edges_misaligned(last_counterclockwise_edge, next_clockwise_edge)
                    THEN walk(acc \o <<Obstacle, polygon_index>>, Tail(rest), v, polys)
                    ELSE walk(Append(acc, polygon_index), Tail(rest), v, polys)

\* lines 134-166 for one vertex whose polygons are sorted and not empty
polygons_including_obstacles(ps, v, polys) ==
    remove_first(walk(<<ps[1]>>, ring_iterator(ps), v, polys))

\* the unwraps of lines 129, 150 and 155 and the indexing of line 134
resolve_panics(ps, v, polys) ==
    \/ ps = <<>>
    \/ \E i \in 1..Len(ps) :
         \/ get_counterclockwise_edge_containing_vertex(polys[ps[i] + 1], v) = None
         \/ get_clockwise_edge_containing_vertex(polys[ps[i] + 1], v) = None

\* get_mesh (lines 222-241).  A child is "none" (no Handle<Mesh>), "triangles" or
\* "lines" (a handle to a loaded mesh of that topology) or "unloaded" (a handle
\* whose asset is not in Assets<Mesh>).  Entities are the 0-based child places.
entity_handles(ch) ==
    LET Holds(e) == ch[e + 1] /= "none"
    IN  SelectSeq([k \in 1..Len(ch) |-> k - 1], Holds)

get_mesh_first_handle(ch) ==
    LET hs == entity_handles(ch)
    IN  IF Len(hs) = 0 THEN [ok |-> FALSE, entity |-> -1]
        ELSE IF ch[hs[1] + 1] /= "triangles" THEN [ok |-> FALSE, entity |-> -1]
        ELSE [ok |-> TRUE, entity |-> hs[1]]

get_mesh(ch) ==
    LET hs == entity_handles(ch)
    IN  IF Len(hs) /= 1 THEN [ok |-> FALSE, entity |-> -1]              \* line 231
        ELSE IF ch[hs[1] + 1] = "unloaded" THEN [ok |-> FALSE, entity |-> -1]  \* line 238
        ELSE IF ch[hs[1] + 1] /= "triangles" THEN [ok |-> FALSE, entity |-> -1] \* line 239
        ELSE [ok |-> TRUE, entity |-> hs[1]]

----------------------------------------------------------------------------
(* Input families *)

ChildKinds == {"none", "triangles", "lines", "unloaded"}

AllScenes == SeqsUpTo(ChildKinds, MaxChildren)

\* a mesh with its position attribute and its index buffer, or lacking one of them
MeshAttributes == {"complete", "no_positions", "no_indices"}

\* the scene of a well-formed level, and one without a mesh
FewScenes == {<<"triangles">>, <<>>}

Flatten(ts) == [i \in 1..(3 * Len(ts)) |-> ts[((i - 1) \div 3) + 1][((i - 1) % 3) + 1]]

Rot(t, r) == [i \in 1..3 |-> t[((i - 1 + r) % 3) + 1]]

\* points in convex position, counterclockwise in the horizontal plane by index
ConvexPoint(i) == <<i, i + 1, i * i>>

\* all vertices on one spot of the plane
StackedPoint(i) == <<1, i, 1>>

\* every index buffer of at most ni indices below nv, over every vertex buffer of
\* at most nv vertices: out-of-range indices, unreferenced vertices, degenerate
\* and repeated triangles and an incomplete last triple all occur
GeneralMeshes(nv, ni) ==
    {[positions |-> ps, indices |-> b] :
        ps \in UNION {{[i \in 1..n |-> ConvexPoint(i - 1)], [i \in 1..n |-> StackedPoint(i - 1)]}
                        : n \in 0..nv},
        b \in SeqsUpTo(0..(nv - 1), ni)}

\* a unit-2 square, corners counterclockwise
Square == <<<<0, 1, 0>>, <<2, 0, 0>>, <<2, 3, 2>>, <<0, 0, 2>>>>

\* the two ways of splitting the square along a diagonal, in corner numbers
QuadSplits == {<<<<0, 1, 2>>, <<0, 2, 3>>>>, <<<<0, 1, 3>>, <<1, 2, 3>>>>}

Perms(n) == {p \in [0..(n - 1) -> 0..(n - 1)] : \A a, b \in 0..(n - 1) : p[a] = p[b] => a = b}

\* every labelling of the corners, both diagonals, both orders of the two
\* triangles in the index buffer and every starting vertex of each triangle
QuadMeshes ==
    {[positions |-> [l \in 1..4 |-> Square[(CHOOSE c \in 0..3 : p[c] = l - 1) + 1]],
      indices |-> LET t1 == Rot([i \in 1..3 |-> p[split[1][i]]], r1)
                      t2 == Rot([i \in 1..3 |-> p[split[2][i]]], r2)
                  IN  IF swap THEN Flatten(<<t2, t1>>) ELSE Flatten(<<t1, t2>>)] :
        p \in Perms(4), split \in QuadSplits, swap \in BOOLEAN, r1 \in 0..2, r2 \in 0..2}

\* the counterclockwise triangles over the first n convex points
ConvexTriangles(n) ==
    {t \in [1..3 -> 0..(n - 1)] : t[1] < t[2] /\ t[2] < t[3]}

\* every sequence of at most nt counterclockwise triangles over the first n
\* convex points, for every n up to nv
PlanarMeshes(nv, nt) ==
    {[positions |-> [i \in 1..m.n |-> ConvexPoint(i - 1)], indices |-> Flatten(m.ts)] :
        m \in UNION {{[n |-> n, ts |-> ts] : ts \in SeqsUpTo(ConvexTriangles(n), nt)}
                        : n \in 3..nv}}

\* a tetrahedron seen from above: apex 0 over the triangle 1, 2, 3; every face is
\* counterclockwise seen from outside
TetraPositions == <<<<0, 2, 0>>, <<-2, 0, -1>>, <<2, 0, -1>>, <<0, 0, 2>>>>

TetraFaces == <<<<0, 1, 2>>, <<0, 2, 3>>, <<0, 3, 1>>, <<1, 3, 2>>>>

\* every order of the faces in the index buffer, every starting vertex of each
TetraMeshes ==
    {[positions |-> TetraPositions,
      indices |-> Flatten([k \in 1..4 |-> Rot(TetraFaces[p[k - 1] + 1], r[k])])] :
        p \in Perms(4), r \in [1..4 -> 0..2]}

----------------------------------------------------------------------------
(* The state machine *)

InitWith(Meshes, Scenes, Attributes) ==
    /\ \E m \in Meshes : positions = m.positions /\ indices = m.indices
    /\ children \in Scenes
    /\ attributes \in Attributes
    /\ pc = "start"
    /\ failure = "none"
    /\ child = -1
    /\ triangles = <<>>
    /\ vertices = <<>>
    /\ polygons = <<>>
    /\ unordered_vertices = <<>>
    /\ vertex_index = 0
    /\ sorted_polygons = <<>>
    /\ despawned = {}
    /\ inserted = FALSE
    /\ events = <<>>

Init == InitWith(GeneralMeshes(MaxVertices, MaxIndices), FewScenes, {"complete"})

InitExtract ==
    InitWith(QuadMeshes \cup GeneralMeshes(MaxVertices, 3), AllScenes, MeshAttributes)

InitQuad == InitWith(QuadMeshes, {<<"triangles">>}, {"complete"})

InitPlanar ==
    InitWith(PlanarMeshes(MaxPlanarVertices, MaxPlanarTriangles) \cup TetraMeshes,
             {<<"triangles">>}, {"complete"})

Abort(stage) ==
    /\ pc' = "aborted"
    /\ failure' = stage
    /\ events' = Append(events, "panic")

\* lines 25-26 of read_colliders: the child is despawned right after get_mesh
GetMeshThenDespawn ==
    /\ pc = "start"
    /\ LET r == get_mesh(children)
       IN  IF r.ok
           THEN /\ pc' = "extracted"
                /\ child' = r.entity
                /\ despawned' = despawned \cup {r.entity}
                /\ failure' = failure
                /\ events' = Append(events, "get_mesh")
           ELSE Abort("get_mesh") /\ UNCHANGED <<child, despawned>>
    /\ UNCHANGED <<children, attributes, positions, indices, triangles, vertices, polygons,
                   unordered_vertices, vertex_index, sorted_polygons, inserted>>

\* line 70
GetMesh ==
    /\ pc = "start"
    /\ LET r == get_mesh(children)
       IN  IF r.ok
           THEN /\ pc' = "extracted"
                /\ child' = r.entity
                /\ failure' = failure
                /\ events' = Append(events, "get_mesh")
           ELSE Abort("get_mesh") /\ UNCHANGED child
    /\ UNCHANGED <<children, attributes, positions, indices, triangles, vertices, polygons,
                   unordered_vertices, vertex_index, sorted_polygons, despawned, inserted>>

\* lines 71-102: the unwraps of the position attribute and of the index buffer,
\* then the triangles and the vertices with their polygon memberships
CollectVertices ==
    /\ pc = "extracted"
    /\ IF attributes /= "complete"
       THEN Abort("attributes") /\ UNCHANGED <<triangles, vertices>>
       ELSE /\ triangles' = tuples(indices)
            /\ vertices' = [i \in 1..Len(positions) |->
                                [coords |-> xz(positions[i]),
                                 polygons |-> neighbor_indices(triangles', i - 1)]]
            /\ pc' = "vertices"
            /\ failure' = failure
            /\ events' = Append(events, "vertices")
    /\ UNCHANGED <<children, attributes, positions, indices, child, polygons,
                   unordered_vertices, vertex_index, sorted_polygons, despawned, inserted>>

\* lines 103-119
BuildPolygons ==
    /\ pc = "vertices"
    /\ IF \E k \in 1..Len(triangles) : unique_take3(triangles[k], {}, vertices).panic
       THEN Abort("polygons") /\ UNCHANGED <<polygons, unordered_vertices>>
       ELSE /\ polygons' = [k \in 1..Len(triangles) |->
                                [vertices |-> triangles[k],
                                 is_one_way |-> is_one_way(triangles[k], vertices)]]
            /\ unordered_vertices' = vertices
            /\ pc' = IF Len(vertices) = 0 THEN "resolved" ELSE "resolving"
            /\ failure' = failure
            /\ events' = Append(events, "polygons")
    /\ UNCHANGED <<children, attributes, positions, indices, child, triangles, vertices,
                   vertex_index, sorted_polygons, despawned, inserted>>

\* lines 120-167: one iteration of the loop over the vertices
ResolveVertex ==
    /\ pc = "resolving"
    /\ LET vertex == vertices[vertex_index + 1]
       IN  IF resolve_panics(vertex.polygons, vertex_index, polygons)
           THEN Abort("resolve") /\ UNCHANGED <<vertices, vertex_index, sorted_polygons>>
           ELSE LET ps == sort_by_key(vertex.polygons, vertex_index, vertex, polygons,
                                      unordered_vertices)
                IN  /\ sorted_polygons' = Append(sorted_polygons, ps)
                    /\ vertices' = [vertices EXCEPT ![vertex_index + 1].polygons =
                                        polygons_including_obstacles(ps, vertex_index, polygons)]
                    /\ vertex_index' = vertex_index + 1
                    /\ pc' = IF vertex_index + 1 = Len(vertices) THEN "resolved" ELSE "resolving"
                    /\ failure' = failure
                    /\ events' = Append(events, "resolve")
    /\ UNCHANGED <<children, attributes, positions, indices, child, triangles, polygons,
                   unordered_vertices, despawned, inserted>>

\* lines 168-170
Bake ==
    /\ pc = "resolved"
    /\ pc' = "baked"
    /\ events' = Append(events, "bake")
    /\ UNCHANGED <<children, attributes, positions, indices, failure, child, triangles, vertices,
                   polygons, unordered_vertices, vertex_index, sorted_polygons,
                   despawned, inserted>>

\* lines 172-173
Publish ==
    /\ pc = "baked"
    /\ despawned' = despawned \cup {child}
    /\ inserted' = TRUE
    /\ pc' = "done"
    /\ events' = Append(events, "publish")
    /\ UNCHANGED <<children, attributes, positions, indices, failure, child, triangles, vertices,
                   polygons, unordered_vertices, vertex_index, sorted_polygons>>

Next ==
    \/ GetMesh
    \/ CollectVertices
    \/ BuildPolygons
    \/ ResolveVertex
    \/ Bake
    \/ Publish

Spec == Init /\ [][Next]_vars

SpecExtract == InitExtract /\ [][Next]_vars

SpecQuad == InitQuad /\ [][Next]_vars

SpecPlanar == InitPlanar /\ [][Next]_vars

----------------------------------------------------------------------------
(* Vocabulary of the properties *)

\* vertex v (0-based) went through lines 120-167
Resolved(v) == v < vertex_index

ResolvedVertices == {v \in 0..(Len(vertices) - 1) : Resolved(v)}

\* the polygon-reference sequence of a resolved vertex
Final(v) == vertices[v + 1].polygons

\* the polygons whose triangle lists vertex v, read off the index buffer
Incident(v) == {k - 1 : k \in {j \in 1..Len(triangles) : v \in Range(triangles[j])}}

AdjacencyDone == pc \in {"resolved", "baked", "done"}

\* two sentinels never meet in s, read as a ring
NoAdjacentObstacles(s) ==
    \A i \in 1..Len(s) : ~(s[i] = Obstacle /\ s[(i % Len(s)) + 1] = Obstacle /\ Len(s) > 1)

----------------------------------------------------------------------------
(* C1 *)

\* the index buffer is a quad: 4 vertices, 2 triangles of 3 distinct vertices each
\* that share exactly one edge and traverse it in opposite directions
QuadShape ==
    /\ Len(vertices) = 4
    /\ Len(triangles) = 2
    /\ \A k \in 1..2 : Cardinality(Range(triangles[k])) = 3
    /\ Range(triangles[1]) \cup Range(triangles[2]) = 0..3
    /\ \E i, j \in 1..3 :
          /\ triangles[1][i] = triangles[2][(j % 3) + 1]
          /\ triangles[1][(i % 3) + 1] = triangles[2][j]

Diagonal == Range(triangles[1]) \cap Range(triangles[2])

\* C1 as stated: in a quad split along a diagonal, after adjacency resolution the 2
\* vertices off the diagonal hold one real polygon and one sentinel, and the 2
\* vertices on the diagonal hold both polygons and no sentinel.
C1_DiagonalWithoutSentinel ==
    (QuadShape /\ AdjacencyDone) =>
        \A v \in 0..3 :
            IF v \in Diagonal
            THEN Range(Final(v)) = {0, 1} /\ Count(Final(v), Obstacle) = 0
            ELSE /\ Len(Final(v)) = 2
                 /\ Count(Final(v), Obstacle) = 1
                 /\ \E p \in Incident(v) : Count(Final(v), p) = 1

\* C1 amended: the 2 vertices off the diagonal hold one real polygon and one
\* sentinel (in the order [-1, poly]); the 2 vertices on the diagonal hold both
\* polygons once each and exactly one sentinel (3 entries): each is a corner of
\* the quad, so its fan of 2 triangles is open on the outer side.
C1_QuadSequences ==
    (QuadShape /\ AdjacencyDone) =>
        \A v \in 0..3 :
            IF v \in Diagonal
            THEN /\ Len(Final(v)) = 3
                 /\ Count(Final(v), 0) = 1
                 /\ Count(Final(v), 1) = 1
                 /\ Count(Final(v), Obstacle) = 1
            ELSE /\ Cardinality(Incident(v)) = 1
                 /\ \E p \in Incident(v) : Final(v) = <<Obstacle, p>>

C1_Witness ==
    /\ pc = "done"
    /\ QuadShape
    /\ Cardinality(Diagonal) = 2
    /\ \E v \in Diagonal : Len(Final(v)) = 3

----------------------------------------------------------------------------
(* C2 *)

DirectedEdges(k) == {<<triangles[k][i], triangles[k][(i % 3) + 1]>> : i \in 1..3}

\* every triangle has 3 distinct vertices and every edge of every triangle is
\* traversed by exactly one triangle in each direction
ClosedMesh ==
    /\ Len(triangles) > 0
    /\ \A k \in 1..Len(triangles) : Cardinality(Range(triangles[k])) = 3
    /\ \A k \in 1..Len(triangles) : \A e \in DirectedEdges(k) :
          /\ Cardinality({j \in 1..Len(triangles) : e \in DirectedEdges(j)}) = 1
          /\ Cardinality({j \in 1..Len(triangles) : <<e[2], e[1]>> \in DirectedEdges(j)}) = 1

\* C2: in a closed, consistently wound mesh without boundary, whatever the order
\* of its triangles in the index buffer, no final polygon-reference sequence
\* holds a sentinel.
C2_ClosedMeshNoSentinel ==
    ClosedMesh => \A v \in ResolvedVertices : Count(Final(v), Obstacle) = 0

----------------------------------------------------------------------------
(* C3 *)

SingleTriangle ==
    /\ Len(vertices) = 3
    /\ Len(triangles) = 1
    /\ Range(triangles[1]) = 0..2

\* C3: for a single isolated triangle, every resolved vertex holds exactly one
\* real entry (polygon 0) and exactly one sentinel, the counterclockwise and the
\* clockwise edge of polygon 0 at the vertex not being the same edge reversed.
C3_SingleTriangle ==
    SingleTriangle =>
        \A v \in ResolvedVertices :
            /\ Len(Final(v)) = 2
            /\ Count(Final(v), 0) = 1
            /\ Count(Final(v), Obstacle) = 1
            /\ LET ccw == get_counterclockwise_edge_containing_vertex(polygons[1], v)
                   cw == get_clockwise_edge_containing_vertex(polygons[1], v)
               IN  ~(ccw[1] = cw[2] /\ ccw[2] = cw[1])

C3_Witness == pc = "done" /\ SingleTriangle /\ \A v \in 0..2 : Resolved(v)

----------------------------------------------------------------------------
(* C4 *)

\* C4: the final sequence of a vertex that some triangle references (a) never
\* holds two sentinels side by side, the ring closure included, (b) holds every
\* incident polygon exactly once, (c) is as long as the incident polygons plus
\* the sentinels.
C4_SequenceShape ==
    \A v \in ResolvedVertices :
        Incident(v) /= {} =>
            /\ NoAdjacentObstacles(Final(v))
            /\ \A p \in Incident(v) : Count(Final(v), p) = 1
            /\ Len(Final(v)) = Cardinality(Incident(v)) + Count(Final(v), Obstacle)

C4_Witness ==
    \E v \in ResolvedVertices :
        /\ Cardinality(Incident(v)) = 2
        /\ Count(Final(v), Obstacle) = 2
        /\ Len(Final(v)) = 4

----------------------------------------------------------------------------
(* C5 *)

MeshBearing == {e \in 0..(Len(children) - 1) : children[e + 1] /= "none"}

\* C5: get_mesh returns exactly when one child carries a mesh and that mesh is a
\* triangle list; what it returns is that child; otherwise it aborts.
C5_GetMesh ==
    pc /= "start" =>
        /\ (failure /= "get_mesh") <=>
              (/\ Cardinality(MeshBearing) = 1
               /\ \A e \in MeshBearing : children[e + 1] = "triangles")
        /\ failure /= "get_mesh" => child \in MeshBearing
        /\ failure = "get_mesh" => (pc = "aborted" /\ child = -1)

C5_Witness ==
    /\ pc = "extracted"
    /\ Len(children) = 2
    /\ child = 1
    /\ children[1] = "none"

----------------------------------------------------------------------------
(* C6 *)

\* every index of the index buffer lies inside the vertex buffer
IndicesInRange == \A i \in 1..Len(indices) : indices[i] < Len(positions)

\* C6: is_one_way of a polygon is true exactly when none of its 3 vertices
\* belongs to 3 or more polygons.
C6_OneWayPerVertex ==
    IndicesInRange =>
        \A k \in 1..Len(polygons) :
            polygons[k].is_one_way <=>
                \A i \in 1..3 :
                    Cardinality(Range(unordered_vertices[polygons[k].vertices[i] + 1].polygons)) < 3

\* what the code computes instead: the flag is true exactly when the union of
\* the memberships of the 3 vertices holds fewer than 3 polygons
C6_OneWayUnion ==
    IndicesInRange =>
        \A k \in 1..Len(polygons) :
            polygons[k].is_one_way <=>
                Cardinality(UNION {Range(unordered_vertices[polygons[k].vertices[i] + 1].polygons)
                                      : i \in 1..3}) < 3

----------------------------------------------------------------------------
(* C7 *)

Places(name) == {i \in 1..Len(events) : events[i] = name}

\* C7: adjacency work starts only after get_mesh returned, and the child is
\* despawned and the navmesh inserted only after get_mesh, the memberships, the
\* polygons, the resolution of every vertex and the bake, in a run with no panic.
C7_FailFastThenPublish ==
    /\ \A i \in 1..Len(events) :
          events[i] \in {"vertices", "polygons", "resolve"} =>
              \E j \in 1..(i - 1) : events[j] = "get_mesh"
    /\ (despawned /= {} \/ inserted) =>
          /\ failure = "none"
          /\ pc = "done"
          /\ Places("panic") = {}
          /\ despawned = {child}
          /\ inserted
          /\ Cardinality(Places("resolve")) = Len(vertices)
          /\ \A n \in {"get_mesh", "vertices", "polygons", "bake"} \cup
                      (IF Len(vertices) > 0 THEN {"resolve"} ELSE {}) :
                 /\ Places(n) /= {}
                 /\ \A i \in Places(n) : \A j \in Places("publish") : i < j
    /\ failure /= "none" => (despawned = {} /\ ~inserted)

C7_Witness ==
    /\ pc = "done"
    /\ inserted
    /\ despawned = {child}
    /\ Cardinality(Places("resolve")) = 4

----------------------------------------------------------------------------
(* C8 *)

\* the angle the claim describes: from the vertex to the other end of the
\* polygon's counterclockwise edge at the vertex
DirectionToEdgeStart(p, v) ==
    LET e == get_counterclockwise_edge_containing_vertex(polygons[p + 1], v)
    IN  <<unordered_vertices[e[1] + 1].coords[1] - unordered_vertices[v + 1].coords[1],
          unordered_vertices[e[1] + 1].coords[2] - unordered_vertices[v + 1].coords[2]>>

\* C8: the sort key of a polygon at a vertex is taken from a vertex of the
\* polygon other than the vertex itself, and after the sort the polygons of the
\* vertex are in counterclockwise angular order, whatever their order in the
\* index buffer.
C8_SortedByAngle ==
    \A v \in ResolvedVertices :
        LET s == sorted_polygons[v + 1]
        IN  /\ \A i \in 1..Len(s) :
                  other_vertex_index(
                      get_counterclockwise_edge_containing_vertex(polygons[s[i] + 1], v)) /= v
            /\ \A i, j \in 1..Len(s) :
                  i < j => ~atan2_less(DirectionToEdgeStart(s[j], v), DirectionToEdgeStart(s[i], v))

\* the observable half of C8: the sorted polygons are in ascending order of the
\* angle toward the other end of their counterclockwise edge
C8_AscendingAngles ==
    \A v \in ResolvedVertices :
        LET s == sorted_polygons[v + 1]
        IN  \A i, j \in 1..Len(s) :
                i < j => ~atan2_less(DirectionToEdgeStart(s[j], v), DirectionToEdgeStart(s[i], v))

----------------------------------------------------------------------------
(* C9 *)

\* the edges are the same undirected edge traversed in opposite directions
Shared(e1, e2) == e1[1] = e2[2] /\ e1[2] = e2[1]

\* C9: walking the sorted polygons s of vertex v as a ring, the pair (s[i], next
\* of s[i]) is separated by a sentinel in the final sequence exactly when the
\* counterclockwise edge (a, v) of s[i] and the clockwise edge (v, d) of its
\* successor are not the same edge reversed.  The successor of s[i] sits at place
\* i plus the number of gaps up to i.
C9_SentinelIffNotShared ==
    \A v \in ResolvedVertices :
        LET s == sorted_polygons[v + 1]
            n == Len(s)
            f == Final(v)
            succ(i) == s[(i % n) + 1]
            ccw(i) == get_counterclockwise_edge_containing_vertex(polygons[s[i] + 1], v)
            cw(i) == get_clockwise_edge_containing_vertex(polygons[succ(i) + 1], v)
            gap(i) == ~Shared(ccw(i), cw(i))
            gaps(i) == Cardinality({j \in 1..i : gap(j)})
        IN  /\ Len(f) = n + gaps(n)
            /\ \A i \in 1..n :
                  /\ ccw(i)[2] = v
                  /\ cw(i)[1] = v
                  /\ f[i + gaps(i)] = succ(i)
                  /\ gap(i) <=> (i + gaps(i) > 1 /\ f[i + gaps(i) - 1] = Obstacle)

C9_Witness ==
    \E v \in ResolvedVertices :
        /\ Len(sorted_polygons[v + 1]) = 2
        /\ Count(Final(v), Obstacle) = 1

----------------------------------------------------------------------------
(* C10 *)

\* C10: when get_mesh returned and every index of the index buffer lies inside
\* the vertex buffer, neither the polygon stage nor the adjacency resolution of
\* any vertex aborts.
C10_ResolutionNeverAborts ==
    IndicesInRange => failure \notin {"polygons", "resolve"}

\* the part of C10 that holds: both edge lookups succeed for every vertex and
\* every polygon incident to it
C10_LookupsSucceed ==
    pc \in {"resolving", "resolved", "baked", "done"} =>
        \A v \in 0..(Len(vertices) - 1) : \A p \in Incident(v) :
            /\ get_counterclockwise_edge_containing_vertex(polygons[p + 1], v) /= None
            /\ get_clockwise_edge_containing_vertex(polygons[p + 1], v) /= None

====
